---- MODULE Spec2Model ----
(***************************************************************************)
(* Model of PDF_MAIN_APP.py: the certificate splitter's name extractor,    *)
(* name formatter and page-splitting driver.                               *)
(*                                                                         *)
(* A Python str is a sequence of characters; a character is a one-element  *)
(* TLA+ string ("NUL" stands for the character \x00).  An optional str is  *)
(* a record [none, s]: None is [none |-> TRUE, s |-> <<>>].                *)
(***************************************************************************)
EXTENDS Integers, Sequences, FiniteSets, TLC

VARIABLES
    \* a call of format_name_for_filename: where it is, its argument, its result
    fmt_pc, fmt_in, fmt_out,
    \* a call of extract_name_from_text: where it is, and its locals
    ext_pc, ext_text, ext_name,
    \* a run of split_pdf_with_names and of the caller's zip step
    drv_pc,          \* where the run is
    pages,           \* the text of each page of the uploaded document
    organize_into_folders,
    done_pages,      \* the loop's i: the pages handled so far
    pages_dir,       \* the files under pages/: <<file name, page>>
    organized_dir,   \* the files under organized/: <<folder, file name, page>>
    output_path,     \* the file name the current page is written under
    output_files,
    listing,         \* organizing: the files of pages/ still to handle
    organized_files,
    reported,        \* what st.error has shown
    faulted,         \* history: the faults that happened, [page, kind]
    result,          \* what split_pdf_with_names returned
    zip              \* the archive create_download_zip wrote

fmt_vars == <<fmt_pc, fmt_in, fmt_out>>
ext_vars == <<ext_pc, ext_text, ext_name>>
drv_vars == <<drv_pc, pages, organize_into_folders, done_pages, pages_dir,
              organized_dir, output_path, output_files, listing,
              organized_files, reported, faulted, result, zip>>
vars == <<fmt_vars, ext_vars, drv_vars>>

----------------------------------------------------------------------------
(* Characters and the str methods the program uses.                        *)

UpperLetters == {"A","B","C","D","E","F","G","H","I","J","K","L","M",
                 "N","O","P","Q","R","S","T","U","V","W","X","Y","Z"}
LowerLetters == {"a","b","c","d","e","f","g","h","i","j","k","l","m",
                 "n","o","p","q","r","s","t","u","v","w","x","y","z"}
Digits == {"0","1","2","3","4","5","6","7","8","9"}
LowerMap ==
    ("A" :> "a") @@ ("B" :> "b") @@ ("C" :> "c") @@ ("D" :> "d") @@
    ("E" :> "e") @@ ("F" :> "f") @@ ("G" :> "g") @@ ("H" :> "h") @@
    ("I" :> "i") @@ ("J" :> "j") @@ ("K" :> "k") @@ ("L" :> "l") @@
    ("M" :> "m") @@ ("N" :> "n") @@ ("O" :> "o") @@ ("P" :> "p") @@
    ("Q" :> "q") @@ ("R" :> "r") @@ ("S" :> "s") @@ ("T" :> "t") @@
    ("U" :> "u") @@ ("V" :> "v") @@ ("W" :> "w") @@ ("X" :> "x") @@
    ("Y" :> "y") @@ ("Z" :> "z")

\* regular-expression classes \s and \w
IsSpace(c) == c \in {" ", "\n", "\t", "\r", "\f"}
IsWord(c) == c \in UpperLetters \cup LowerLetters \cup Digits \cup {"_"}

LowerChar(c) == IF c \in UpperLetters THEN LowerMap[c] ELSE c
\* str.lower()
Lower(s) == [k \in 1..Len(s) |-> LowerChar(s[k])]

None == [none |-> TRUE, s |-> <<>>]
Some(s) == [none |-> FALSE, s |-> s]
\* Python truthiness of an optional str: neither None nor ""
Truthy(v) == ~v.none /\ v.s # <<>>

\* s[i:] with a 1-based i
From(s, i) == SubSeq(s, i, Len(s))
\* pat occurs in s at 1-based position i
OccursAt(s, pat, i) ==
    /\ i >= 1
    /\ i + Len(pat) - 1 <= Len(s)
    /\ \A k \in 1..Len(pat) : s[i + k - 1] = pat[k]
\* pat in s
Contains(s, pat) == \E i \in 1..(Len(s) + 1) : OccursAt(s, pat, i)
StartsWith(s, pat) == OccursAt(s, pat, 1)
EndsWith(s, pat) == OccursAt(s, pat, Len(s) - Len(pat) + 1)

\* the positions of s, in order
Positions(s) == [k \in 1..Len(s) |-> k]
\* the characters of s at the positions kept, in order
AtPositions(s, kept) == [n \in 1..Len(kept) |-> s[kept[n]]]

\* str.strip()
Strip(s) ==
    LET solid == SelectSeq(Positions(s), LAMBDA k : ~IsSpace(s[k])) IN
    IF solid = <<>> THEN <<>> ELSE SubSeq(s, solid[1], solid[Len(solid)])

\* the first position from which pat occurs in s, 0 when there is none
FirstOccurrence(s, pat) ==
    LET at == SelectSeq(Positions(s), LAMBDA i : OccursAt(s, pat, i)) IN
    IF at = <<>> THEN 0 ELSE at[1]

\* str.replace(pat, ""): every non-overlapping occurrence, left to right
RECURSIVE ReplaceAll(_, _)
ReplaceAll(s, pat) ==
    LET i == FirstOccurrence(s, pat) IN
    IF i = 0 THEN s
    ELSE SubSeq(s, 1, i - 1) \o ReplaceAll(From(s, i + Len(pat)), pat)

\* re.sub(word, '', s, flags=re.IGNORECASE) for a literal word: one pass,
\* left to right, over the non-overlapping occurrences
RECURSIVE SubIgnoreCase(_, _)
SubIgnoreCase(s, word) ==
    LET i == FirstOccurrence(Lower(s), Lower(word)) IN
    IF i = 0 THEN s
    ELSE SubSeq(s, 1, i - 1) \o SubIgnoreCase(From(s, i + Len(word)), word)

\* \bThis\b matches at position i of s
ThisWordAt(s, i) ==
    /\ OccursAt(s, <<"T","h","i","s">>, i)
    /\ (i = 1 \/ ~IsWord(s[i - 1]))
    /\ (i + 4 > Len(s) \/ ~IsWord(s[i + 4]))
\* re.sub(r'\bThis\b', '', s): two matches never overlap, so every match
\* is removed
SubThisWord(s) ==
    AtPositions(s, SelectSeq(Positions(s),
        LAMBDA k : ~\E i \in (k - 3)..k : i >= 1 /\ ThisWordAt(s, i)))

\* re.sub(r'\s+', ' ', s): the first character of a run of whitespace
\* becomes a space and the rest of the run goes
CollapseSpace(s) ==
    LET kept == SelectSeq(Positions(s),
                    LAMBDA k : ~IsSpace(s[k]) \/ k = 1 \/ ~IsSpace(s[k - 1]))
    IN  [n \in 1..Len(kept) |-> IF IsSpace(s[kept[n]]) THEN " " ELSE s[kept[n]]]

\* re.sub('[...]', '', s) for a character class
SubChars(s, class) == SelectSeq(s, LAMBDA c : c \notin class)

\* str.split(): the maximal runs of non-whitespace
Split(s) ==
    LET first == SelectSeq(Positions(s),
            LAMBDA k : ~IsSpace(s[k]) /\ (k = 1 \/ IsSpace(s[k - 1])))
        last == SelectSeq(Positions(s),
            LAMBDA k : ~IsSpace(s[k]) /\ (k = Len(s) \/ IsSpace(s[k + 1])))
    IN  [n \in 1..Len(first) |-> SubSeq(s, first[n], last[n])]

\* sep.join(parts)
RECURSIVE Join(_, _)
Join(parts, sep) ==
    IF parts = <<>> THEN <<>>
    ELSE IF Len(parts) = 1 THEN parts[1]
    ELSE parts[1] \o sep \o Join(Tail(parts), sep)

----------------------------------------------------------------------------
(* Regular expressions, matched as the backtracking matcher of re does.    *)
(* An expression is a record tagged by t; Ends gives, for a start position *)
(* i (1-based), the positions after each way of matching, in the order the *)
(* matcher tries them, so the first one that lets the rest of the pattern  *)
(* match is the one re takes.                                              *)

SpaceChars == {" ", "\n", "\t", "\r", "\f"}
Punctuation == {".", "-", ",", "'", ":", ";", "/", "\\", "*", "?", "\"", "<",
                ">", "|", "(", ")", "&", "!"}
\* the characters of the texts; . under re.DOTALL matches each of them
AnyChar ==
    UpperLetters \cup LowerLetters \cup Digits \cup {"_"} \cup SpaceChars
        \cup Punctuation \cup {"NUL"}
RSet(cs) == [t |-> "set", cs |-> cs]
RStr(str) == [t |-> "str", s |-> str]
RCat(rs) == [t |-> "cat", rs |-> rs]
RAlt(a, b) == [t |-> "alt", a |-> a, b |-> b]
\* [cs]{lo,hi} for a set of characters cs, hi = -1 for no upper limit;
\* greedy or lazy
RRep(cs, lo, hi, greedy) ==
    [t |-> "rep", cs |-> cs, lo |-> lo, hi |-> hi, greedy |-> greedy]
\* [cs]+
RPlus(cs) == RRep(cs, 1, -1, TRUE)
\* (?:r)?
ROpt(r) == [t |-> "opt", r |-> r]
\* $ : at the end, or before a final newline
REnd == [t |-> "end"]

\* how many characters of cs follow from position i of s
RunLength(s, i, cs) ==
    IF i > Len(s) \/ s[i] \notin cs THEN 0
    ELSE LET stops == SelectSeq(Positions(s),
                          LAMBDA k : k > i /\ s[k] \notin cs)
         IN  (IF stops = <<>> THEN Len(s) + 1 ELSE stops[1]) - i

RECURSIVE Ends(_, _, _), EndsEach(_, _, _, _, _), EndsCat(_, _, _)
Ends(re, s, i) ==
    CASE re.t = "set" -> IF i <= Len(s) /\ s[i] \in re.cs THEN <<i + 1>> ELSE <<>>
      [] re.t = "str" -> IF OccursAt(s, re.s, i) THEN <<i + Len(re.s)>> ELSE <<>>
      [] re.t = "cat" -> EndsCat(re.rs, s, <<i>>)
      [] re.t = "alt" -> Ends(re.a, s, i) \o Ends(re.b, s, i)
      [] re.t = "opt" -> Ends(re.r, s, i) \o <<i>>
      [] re.t = "rep" ->
            LET run == RunLength(s, i, re.cs)
                most == IF re.hi >= 0 /\ re.hi < run THEN re.hi ELSE run
                ways == most - re.lo + 1
            IN  IF ways <= 0 THEN <<>>
                ELSE [n \in 1..ways |->
                         IF re.greedy THEN i + most - (n - 1)
                         ELSE i + re.lo + (n - 1)]
      [] re.t = "end" ->
            IF i = Len(s) + 1 \/ (i = Len(s) /\ s[i] = "\n") THEN <<i>> ELSE <<>>
\* the ends from starts[lo], ..., starts[hi] in that order
EndsEach(re, s, starts, lo, hi) ==
    IF lo > hi THEN <<>>
    ELSE IF lo = hi THEN Ends(re, s, starts[lo])
    ELSE LET mid == (lo + hi) \div 2 IN
         EndsEach(re, s, starts, lo, mid) \o EndsEach(re, s, starts, mid + 1, hi)
EndsCat(rs, s, starts) ==
    IF rs = <<>> THEN starts
    ELSE EndsCat(Tail(rs), s, EndsEach(Head(rs), s, starts, 1, Len(starts)))

\* A pattern cut into consecutive parts (before a group, the group, after
\* it): the first way, in the order the engine tries them, of matching the
\* parts in turn from the last position of path, as the sequence of the
\* positions between the parts; <<>> when there is no way
RECURSIVE FirstPath(_, _, _)
FirstPath(parts, s, path) ==
    IF parts = <<>> THEN path
    ELSE LET ends == Ends(Head(parts), s, path[Len(path)])
             good == SelectSeq(ends, LAMBDA e :
                         FirstPath(Tail(parts), s, Append(path, e)) # <<>>)
         IN  IF good = <<>> THEN <<>>
             ELSE FirstPath(Tail(parts), s, Append(path, good[1]))

\* the characters a match can begin with; every character when the
\* expression can match the empty string
RECURSIVE FirstChars(_)
FirstChars(re) ==
    CASE re.t = "set" -> re.cs
      [] re.t = "str" -> IF re.s = <<>> THEN AnyChar ELSE {re.s[1]}
      [] re.t = "cat" -> IF re.rs = <<>> THEN AnyChar ELSE FirstChars(re.rs[1])
      [] re.t = "alt" -> FirstChars(re.a) \cup FirstChars(re.b)
      [] re.t = "rep" -> IF re.lo >= 1 THEN re.cs ELSE AnyChar
      [] OTHER -> AnyChar

\* for each position where the pattern matches, the first way of matching
\* there, in the order of the positions; only a position whose character
\* can begin a match (or the end of the text) is tried
MatchesByStart(parts, s) ==
    LET begin == FirstChars(parts[1])
        tried == SelectSeq([k \in 1..(Len(s) + 1) |-> k],
                     LAMBDA k : k > Len(s) \/ s[k] \in begin)
        ways == [n \in 1..Len(tried) |-> FirstPath(parts, s, <<tried[n]>>)]
    IN  SelectSeq(ways, LAMBDA w : w # <<>>)

\* re.search: the match at the leftmost position; <<>> when there is none
Search(parts, s) ==
    LET ms == MatchesByStart(parts, s) IN
    IF ms = <<>> THEN <<>> ELSE ms[1]

\* re.finditer: the successive matches, each starting no earlier than the
\* end of the one before (no pattern here matches the empty string)
RECURSIVE NonOverlapping(_, _)
NonOverlapping(ms, from) ==
    LET rest == SelectSeq(ms, LAMBDA m : m[1] >= from) IN
    IF rest = <<>> THEN <<>>
    ELSE <<rest[1]>> \o NonOverlapping(rest, rest[1][Len(rest[1])])
FindIter(parts, s) == NonOverlapping(MatchesByStart(parts, s), 1)

\* the text between positions a and b of a match
Span(s, a, b) == SubSeq(s, a, b - 1)

----------------------------------------------------------------------------
(* format_name_for_filename                                                *)

BlockedChars == {"\n", "\r", "\t", "\\", "/", ":", "*", "?", "\"", "<", ">", "|"}

\* the cleanup pass of the formatter
clean_name(name) ==
    LET c1 == SubChars(name, BlockedChars)
        c2 == SubIgnoreCase(c1, <<"C","O","M","P","L","E","T","I","O","N">>)
        c3 == SubIgnoreCase(c2, <<"C","E","R","T","I","F","I","C","A","T","E">>)
        c4 == SubThisWord(c3)
    IN  Strip(CollapseSpace(c4))

name_prefixes ==
    { <<"d","e">>, <<"d","e","l">>, <<"d","e","l","a">>, <<"d","e","l","l","a">>, <<"d","e","s">>, <<"d","i">>, <<"d","u">>, <<"e","l">>,
      <<"l","a">>, <<"l","e">>, <<"v","a","n">>, <<"v","o","n">>, <<"d","e","r">>, <<"d","e","n">>, <<"d","a","s">>, <<"d","o","s">>,
      <<"d","a">>, <<"d","o">>, <<"s","a","n">>, <<"s","t">>, <<"s","t","a",".">>, <<"s","t","o",".">>, <<"s","t","a">>, <<"s","t","o">> }

StaStoForms == { <<"s","t","a",".">>, <<"s","t","o",".">>, <<"s","t","a">>, <<"s","t","o">> }

\* name_parts[1].lower() in ['sta.', 'sto.', 'sta', 'sto']
SecondIsStaSto(name_parts) == Lower(name_parts[2]) \in StaStoForms

\* name_parts[-2].lower().replace('.', '') in ['sta', 'sto']
PenultIsStaSto(name_parts) ==
    ReplaceAll(Lower(name_parts[Len(name_parts) - 1]), <<".">>)
        \in { <<"s","t","a">>, <<"s","t","o">> }

\* last_name with the double-prefix test ahead of the single-prefix test
last_name_double_prefix_first(name_parts) ==
    LET n == Len(name_parts) IN
    IF n >= 3
    THEN IF PenultIsStaSto(name_parts)
         THEN name_parts[n - 1] \o <<" ">> \o name_parts[n]
         ELSE IF /\ n >= 4
                 /\ Lower(name_parts[n - 2]) \in name_prefixes
                 /\ Lower(name_parts[n - 1]) \in name_prefixes
         THEN name_parts[n - 2] \o <<" ">> \o name_parts[n - 1]
                  \o <<" ">> \o name_parts[n]
         ELSE IF Lower(name_parts[n - 1]) \in name_prefixes
         THEN name_parts[n - 1] \o <<" ">> \o name_parts[n]
         ELSE name_parts[n]
    ELSE name_parts[n]

\* the if/elif chain that picks last_name once the Sta./Sto. special case
\* has not returned
last_name(name_parts) ==
    LET n == Len(name_parts) IN
    IF n >= 3
    THEN IF PenultIsStaSto(name_parts)
         THEN name_parts[n - 1] \o <<" ">> \o name_parts[n]
         ELSE IF Lower(name_parts[n - 1]) \in name_prefixes
         THEN name_parts[n - 1] \o <<" ">> \o name_parts[n]
         ELSE IF /\ n >= 4
                 /\ Lower(name_parts[n - 2]) \in name_prefixes
                 /\ Lower(name_parts[n - 1]) \in name_prefixes
         THEN name_parts[n - 2] \o <<" ">> \o name_parts[n - 1]
                  \o <<" ">> \o name_parts[n]
         ELSE name_parts[n]
    ELSE name_parts[n]

\* format_name_for_filename with the Sta./Sto. special case joining
\* name_parts[1:] instead of name_parts[2:]
format_name_sta_joins_from_second(name) ==
    IF ~Truthy(name) THEN <<"u","n","k","n","o","w","n">>
    ELSE
      LET cleaned == clean_name(name.s)
          name_parts == Split(cleaned)
      IN  IF Len(name_parts) < 2 THEN cleaned
          ELSE IF Len(name_parts) >= 3 /\ SecondIsStaSto(name_parts)
          THEN name_parts[2] \o <<" ">> \o Join(From(name_parts, 2), <<" ">>)
                   \o <<",", " ">> \o name_parts[1]
          ELSE last_name(name_parts) \o <<",", " ">> \o name_parts[1]

\* the function: name is an optional str, the result a str
format_name_for_filename(name) ==
    IF ~Truthy(name) THEN <<"u","n","k","n","o","w","n">>
    ELSE
      LET cleaned == clean_name(name.s)
          name_parts == Split(cleaned)
      IN  IF Len(name_parts) < 2 THEN cleaned
          ELSE IF Len(name_parts) >= 3 /\ SecondIsStaSto(name_parts)
          THEN name_parts[2] \o <<" ">> \o Join(From(name_parts, 3), <<" ">>)
                   \o <<",", " ">> \o name_parts[1]
          ELSE last_name(name_parts) \o <<",", " ">> \o name_parts[1]

----------------------------------------------------------------------------
(* extract_name_from_text                                                  *)

Letters == UpperLetters \cup LowerLetters
RSpaces == RPlus(SpaceChars)
\* [A-Z][a-z]+
RCapWord == RCat(<<RSet(UpperLetters), RPlus(LowerLetters)>>)

\* r'CERTIFICATE OF COMPLETION\s+([A-Za-z\s\.\-]+)(?=\s+This certificate)'
\* as <<before the group, the group, the lookahead>>
Method1Pattern ==
    << RCat(<<RStr(<<"C","E","R","T","I","F","I","C","A","T","E"," ","O","F"," ","C","O","M","P","L","E","T","I","O","N">>), RSpaces>>),
       RPlus(Letters \cup SpaceChars \cup {".", "-"}),
       RCat(<<RSpaces, RStr(<<"T","h","i","s"," ","c","e","r","t","i","f","i","c","a","t","e">>)>>) >>

\* Method 1: the candidate, None when the pattern does not match
method1(text) ==
    LET m == Search(Method1Pattern, text) IN
    IF m = <<>> THEN None
    ELSE Some(Strip(CollapseSpace(Strip(Span(text, m[2], m[3])))))

\* text.split('\n')
SplitLines(s) ==
    LET breaks == SelectSeq(Positions(s), LAMBDA k : s[k] = "\n") IN
    [n \in 1..(Len(breaks) + 1) |->
        SubSeq(s, IF n = 1 THEN 1 ELSE breaks[n - 1] + 1,
                  IF n = Len(breaks) + 1 THEN Len(s) ELSE breaks[n] - 1)]

\* the loop over the lines: <<certificate_index, this_certificate_index>>
\* as 1-based line numbers, 0 for the program's -1; the loop stops at the
\* first line containing "This certificate"
RECURSIVE MarkerScan(_, _, _)
MarkerScan(lines, i, certificate_index) ==
    IF i > Len(lines) THEN <<certificate_index, 0>>
    ELSE LET c == IF Contains(lines[i], <<"C","E","R","T","I","F","I","C","A","T","E"," ","O","F"," ","C","O","M","P","L","E","T","I","O","N">>)
                  THEN i ELSE certificate_index
         IN  IF Contains(lines[i], <<"T","h","i","s"," ","c","e","r","t","i","f","i","c","a","t","e">>) THEN <<c, i>>
             ELSE MarkerScan(lines, i + 1, c)

\* the test on a stripped line between the markers
LineAccepted(candidate) ==
    /\ candidate # <<>>
    /\ ~StartsWith(candidate, <<"C","h","i","e","f">>)
    /\ ~EndsWith(candidate, <<"O","f","f","i","c","e","r">>)
    /\ ~Contains(candidate, <<"M","a","n","a","g","e","r">>)

\* Method 2: the candidate, None when the method assigns nothing
method2(text) ==
    LET lines == SplitLines(text)
        idx == MarkerScan(lines, 1, 0)
        ok == { i \in (idx[1] + 1)..(idx[2] - 1) : LineAccepted(Strip(lines[i])) }
    IN  IF idx[1] # 0 /\ idx[2] # 0 /\ idx[1] < idx[2] /\ ok # {}
        THEN Some(Strip(lines[CHOOSE i \in ok : \A j \in ok : i <= j]))
        ELSE None

\* r'([A-Z][a-z]+)\s+(Sta\.|Sto\.)\s+([A-Z][a-z]+)'
StaStoPattern ==
    << RCat(<<RCapWord, RSpaces, RAlt(RStr(<<"S","t","a",".">>), RStr(<<"S","t","o",".">>)),
              RSpaces, RCapWord>>) >>

\* r'([A-Z][a-z]+|[A-Z]{2,})\s+((?:[A-Za-z]\.?\s+)?(?:[a-z]{1,3}\s+)?
\*   [A-Z][a-z]+(?:\s+[A-Z][a-z]+)?)'
RegularPattern ==
    << RCat(<<RAlt(RCapWord, RRep(UpperLetters, 2, -1, TRUE)),
              RSpaces,
              ROpt(RCat(<<RSet(Letters), ROpt(RStr(<<".">>)), RSpaces>>)),
              ROpt(RCat(<<RRep(LowerLetters, 1, 3, TRUE), RSpaces>>)),
              RCapWord,
              ROpt(RCat(<<RSpaces, RCapWord>>))>>) >>

patterns == <<StaStoPattern, RegularPattern>>

ContextChars == 20

Titles == { <<"C","h","i","e","f"," ","O","p","e","r","a","t","i","n","g">>, <<"O","p","e","r","a","t","i","o","n","s"," ","M","a","n","a","g","e","r">> }

\* a match of Method 3 is taken: not a title, and neither keyword within
\* ContextChars characters of it
MatchAccepted(text, m) ==
    LET candidate == Strip(Span(text, m[1], m[2]))
        lo == IF m[1] - ContextChars > 1 THEN m[1] - ContextChars ELSE 1
        hi == IF m[2] - 1 + ContextChars < Len(text)
              THEN m[2] - 1 + ContextChars ELSE Len(text)
        context == SubSeq(text, lo, hi)
    IN  /\ \A title \in Titles : ~Contains(candidate, title)
        /\ ~Contains(context, <<"O","f","f","i","c","e","r">>)
        /\ ~Contains(context, <<"M","a","n","a","g","e","r">>)

\* the first match of one pattern that is taken, <<>> when there is none
FirstAccepted(text, pattern) ==
    LET ms == SelectSeq(FindIter(pattern, text),
                        LAMBDA m : MatchAccepted(text, m))
    IN  IF ms = <<>> THEN <<>> ELSE Head(ms)

\* Method 3: the candidate, None when no match of either pattern is taken
method3(text) ==
    LET a == FirstAccepted(text, patterns[1]) IN
    IF a # <<>> THEN Some(Strip(Span(text, a[1], a[2])))
    ELSE LET b == FirstAccepted(text, patterns[2]) IN
         IF b # <<>> THEN Some(Strip(Span(text, b[1], b[2]))) ELSE None

\* r'presented to\s+(.*?)\s+for successfully' with re.DOTALL
Method4Pattern ==
    << RCat(<<RStr(<<"p","r","e","s","e","n","t","e","d"," ","t","o">>), RSpaces>>),
       RRep(AnyChar, 0, -1, FALSE),
       RCat(<<RSpaces, RStr(<<"f","o","r"," ","s","u","c","c","e","s","s","f","u","l","l","y">>)>>) >>

\* Method 4: the candidate, None when the pattern does not match
method4(text) ==
    LET m == Search(Method4Pattern, text) IN
    IF m = <<>> THEN None ELSE Some(Strip(Span(text, m[2], m[3])))

\* Unless without the "if not name:" test: a later method overrides the
\* name found by an earlier one
UnlessFoundOverrides(name, found) ==
    IF found.none THEN name ELSE found

\* "if not name:" before Methods 2, 3 and 4: the method runs only while
\* name is None or empty, and leaves name alone when it finds nothing
Unless(name, found) ==
    IF Truthy(name) THEN name
    ELSE IF found.none THEN name ELSE found

\* the cleanup of a found name
cleanup(name) ==
    LET c1 == SubIgnoreCase(name, <<"C","O","M","P","L","E","T","I","O","N">>)
        c2 == SubIgnoreCase(c1, <<"C","E","R","T","I","F","I","C","A","T","E">>)
        c3 == SubThisWord(c2)
    IN  Strip(CollapseSpace(c3))

\* the whole function: the result is an optional str
extract_name_from_text(raw) ==
    LET text == ReplaceAll(raw, <<"NUL">>) IN
    IF text = <<>> THEN None
    ELSE LET n1 == method1(text)
             n2 == Unless(n1, method2(text))
             n3 == Unless(n2, method3(text))
             n4 == Unless(n3, method4(text))
         IN  IF Truthy(n4) THEN Some(cleanup(n4.s)) ELSE n4

----------------------------------------------------------------------------
(* split_pdf_with_names and create_download_zip                            *)

\* str(n) for n >= 0
RECURSIVE Decimal(_)
Decimal(n) ==
    LET d == <<"0", "1", "2", "3", "4", "5", "6", "7", "8", "9">>[(n % 10) + 1]
    IN  IF n < 10 THEN <<d>> ELSE Append(Decimal(n \div 10), d)

ZFillWidth == 3
\* str.zfill(ZFillWidth)
ZFill(s) ==
    IF Len(s) >= ZFillWidth THEN s
    ELSE [k \in 1..(ZFillWidth - Len(s)) |-> "0"] \o s

\* the name the loop goes on with: every "This" replaced by nothing
without_this(found) ==
    IF Truthy(found) /\ Contains(found.s, <<"T","h","i","s">>)
    THEN Some(Strip(ReplaceAll(found.s, <<"T","h","i","s">>)))
    ELSE found

\* output_filename of the page numbered page_number (from 1), as a function
\* of the page's text
output_filename(page_text, page_number) ==
    LET nm == without_this(extract_name_from_text(page_text))
        page_num == ZFill(Decimal(page_number))
    IN  IF Truthy(nm)
        THEN page_num \o <<" ">> \o format_name_for_filename(nm) \o <<".","p","d","f">>
        ELSE page_num \o <<" ","u","n","k","n","o","w","n",".","p","d","f">>

\* r'\d+\s+(.*?)\.pdf$' as <<before the group, the group, after it>>
FileNamePattern ==
    << RCat(<<RPlus(Digits), RSpaces>>),
       RRep(AnyChar \ {"\n"}, 0, -1, FALSE),
       RCat(<<RStr(<<".","p","d","f">>), REnd>>) >>

\* re.match(...).group(1).strip() on a file name, None when it does not match
formatted_name_of(pdf_file) ==
    LET m == FirstPath(FileNamePattern, pdf_file, <<1>>) IN
    IF m = <<>> THEN None ELSE Some(Strip(Span(pdf_file, m[2], m[3])))

\* paths: a file of pages/ and a file of a folder of organized/
PagesPath(file_name) == [under |-> "pages", folder |-> <<>>, name |-> file_name]
OrganizedPath(folder, file_name) ==
    [under |-> "organized", folder |-> folder, name |-> file_name]

\* shutil.copy2 into the organized directory: a file already there under
\* the same folder and name is overwritten
CopyInto(dir, folder, file_name, page) ==
    { f \in dir : ~(f[1] = folder /\ f[2] = file_name) }
        \cup { <<folder, file_name, page>> }

\* the file is skipped by the loop over os.listdir(pages_dir): not a .pdf
\* name, not of the expected form, or an "unknown" file
Skipped(pdf_file) ==
    \/ ~EndsWith(Lower(pdf_file), <<".","p","d","f">>)
    \/ formatted_name_of(pdf_file).none
    \/ Lower(formatted_name_of(pdf_file).s) = <<"u","n","k","n","o","w","n">>

\* the orders os.listdir may give the files of a directory in
RECURSIVE Listings(_)
Listings(dir) ==
    IF dir = {} THEN {<<>>}
    ELSE UNION { { <<f>> \o l : l \in Listings(dir \ {f}) } : f \in dir }

\* os.path.basename
basename(path) == path.name

\* the page held by the file at a path
PageAt(path, pdir, odir) ==
    IF path.under = "pages"
    THEN (CHOOSE f \in pdir : f[1] = path.name)[2]
    ELSE (CHOOSE f \in odir : f[1] = path.folder /\ f[2] = path.name)[3]

\* create_download_zip: one entry per path, named by its basename
create_download_zip(file_paths, pdir, odir) ==
    [k \in 1..Len(file_paths) |->
        [arcname |-> basename(file_paths[k]),
         page |-> PageAt(file_paths[k], pdir, odir)]]

NotReturned == [returned |-> FALSE, files |-> <<>>, total |-> 0]
Returned(files, total) == [returned |-> TRUE, files |-> files, total |-> total]

\* the handler of the function: st.error and return [], 0
ProcessingError(fault) ==
    /\ reported' = reported \cup {[message |-> "Error processing PDF", page |-> 0]}
    /\ faulted' = faulted \cup {fault}
    /\ result' = Returned(<<>>, 0)
    /\ drv_pc' = "returned"

----------------------------------------------------------------------------
(* The steps of extract_name_from_text.                                    *)

\* ext_text = text.replace('\x00', ''); if not ext_text: return None
ExtractStart ==
    /\ ext_pc = "call"
    /\ ext_text' = ReplaceAll(ext_text, <<"NUL">>)
    /\ ext_name' = None
    /\ ext_pc' = IF ext_text' = <<>> THEN "returned" ELSE "method1"
    /\ UNCHANGED <<fmt_vars, drv_vars>>

Method1 ==
    /\ ext_pc = "method1"
    /\ ext_name' = (LET m == method1(ext_text) IN IF m.none THEN ext_name ELSE m)
    /\ ext_pc' = "method2"
    /\ UNCHANGED <<ext_text, fmt_vars, drv_vars>>

Method2 ==
    /\ ext_pc = "method2"
    /\ ext_name' = Unless(ext_name, method2(ext_text))
    /\ ext_pc' = "method3"
    /\ UNCHANGED <<ext_text, fmt_vars, drv_vars>>

Method3 ==
    /\ ext_pc = "method3"
    /\ ext_name' = Unless(ext_name, method3(ext_text))
    /\ ext_pc' = "method4"
    /\ UNCHANGED <<ext_text, fmt_vars, drv_vars>>

Method4 ==
    /\ ext_pc = "method4"
    /\ ext_name' = Unless(ext_name, method4(ext_text))
    /\ ext_pc' = "cleanup"
    /\ UNCHANGED <<ext_text, fmt_vars, drv_vars>>

\* if name: the cleanup; return name
CleanupAndReturn ==
    /\ ext_pc = "cleanup"
    /\ ext_name' = IF Truthy(ext_name) THEN Some(cleanup(ext_name.s)) ELSE ext_name
    /\ ext_pc' = "returned"
    /\ UNCHANGED <<ext_text, fmt_vars, drv_vars>>

----------------------------------------------------------------------------
(* The steps of split_pdf_with_names and of its caller.  The run calls the *)
(* extractor and the formatter above: it sets their argument, lets them    *)
(* run to "returned" and takes their result.                               *)

\* what the steps of the run leave alone unless they say otherwise
RunKeeps(changed) ==
    /\ "pages_dir" \in changed \/ UNCHANGED pages_dir
    /\ "organized_dir" \in changed \/ UNCHANGED organized_dir
    /\ "output_path" \in changed \/ UNCHANGED output_path
    /\ "output_files" \in changed \/ UNCHANGED output_files
    /\ "listing" \in changed \/ UNCHANGED listing
    /\ "organized_files" \in changed \/ UNCHANGED organized_files
    /\ "reported" \in changed \/ UNCHANGED reported
    /\ "faulted" \in changed \/ UNCHANGED faulted
    /\ "result" \in changed \/ UNCHANGED result
    /\ "zip" \in changed \/ UNCHANGED zip
    /\ "done_pages" \in changed \/ UNCHANGED done_pages
    /\ "ext" \in changed \/ UNCHANGED ext_vars
    /\ "fmt" \in changed \/ UNCHANGED fmt_vars
    /\ UNCHANGED <<pages, organize_into_folders>>

\* PdfReader(pdf_path) and len(pdf.pages)
OpenPdf ==
    /\ drv_pc = "open"
    /\ drv_pc' = "loop"
    /\ RunKeeps({})

\* the document cannot be opened or parsed
OpenPdfFails ==
    /\ drv_pc = "open"
    /\ ProcessingError([page |-> 0, kind |-> "open"])
    /\ RunKeeps({"reported", "faulted", "result"})

\* text = extract_text_from_page(pdf, i), then the call of
\* extract_name_from_text(text)
ExtractText ==
    /\ drv_pc = "loop"
    /\ done_pages < Len(pages)
    /\ ext_text' = pages[done_pages + 1]
    /\ ext_name' = None
    /\ ext_pc' = "call"
    /\ drv_pc' = "name"
    /\ RunKeeps({"ext"})

\* extract_text_from_page, the extraction raising: the message, and ""
ExtractTextFails ==
    /\ drv_pc = "loop"
    /\ done_pages < Len(pages)
    /\ reported' = reported \cup
           {[message |-> "Error extracting text from page", page |-> done_pages + 1]}
    /\ faulted' = faulted \cup {[page |-> done_pages + 1, kind |-> "text"]}
    /\ ext_text' = <<>>
    /\ ext_name' = None
    /\ ext_pc' = "call"
    /\ drv_pc' = "name"
    /\ RunKeeps({"ext", "reported", "faulted"})

\* if name: the call of format_name_for_filename(name)
FormatFoundName ==
    /\ drv_pc = "name"
    /\ ext_pc = "returned"
    /\ Truthy(without_this(ext_name))
    /\ fmt_in' = without_this(ext_name)
    /\ fmt_out' = <<>>
    /\ fmt_pc' = "call"
    /\ drv_pc' = "format"
    /\ RunKeeps({"fmt"})

\* output_filename = f"{page_num} {formatted_name}.pdf"
NameFromFormatted ==
    /\ drv_pc = "format"
    /\ fmt_pc = "returned"
    /\ output_path' = ZFill(Decimal(done_pages + 1)) \o <<" ">> \o fmt_out
                          \o <<".","p","d","f">>
    /\ drv_pc' = "write"
    /\ RunKeeps({"output_path"})

\* else: output_filename = f"{page_num} unknown.pdf"
NameUnknown ==
    /\ drv_pc = "name"
    /\ ext_pc = "returned"
    /\ ~Truthy(without_this(ext_name))
    /\ output_path' = ZFill(Decimal(done_pages + 1)) \o <<" ","u","n","k","n","o","w","n",".","p","d","f">>
    /\ drv_pc' = "write"
    /\ RunKeeps({"output_path"})

\* the page is added to a writer and written; the path joins output_files
WritePage ==
    /\ drv_pc = "write"
    /\ pages_dir' = { f \in pages_dir : f[1] # output_path }
                        \cup { <<output_path, done_pages + 1>> }
    /\ output_files' = Append(output_files, PagesPath(output_path))
    /\ done_pages' = done_pages + 1
    /\ drv_pc' = "loop"
    /\ RunKeeps({"pages_dir", "output_files", "done_pages"})

\* adding or writing the page raises: the function's handler ends the run
WritePageFails ==
    /\ drv_pc = "write"
    /\ ProcessingError([page |-> done_pages + 1, kind |-> "write"])
    /\ RunKeeps({"reported", "faulted", "result"})

\* after the loop, organize_into_folders false
ReturnPages ==
    /\ drv_pc = "loop"
    /\ done_pages = Len(pages)
    /\ ~organize_into_folders
    /\ result' = Returned(output_files, Len(pages))
    /\ drv_pc' = "returned"
    /\ RunKeeps({"result"})

\* after the loop, organize_into_folders true: os.listdir(pages_dir)
ListPages ==
    /\ drv_pc = "loop"
    /\ done_pages = Len(pages)
    /\ organize_into_folders
    /\ listing' \in Listings(pages_dir)
    /\ drv_pc' = "organize"
    /\ RunKeeps({"listing"})

\* one turn of the loop over the listing: a file that is skipped
SkipFile ==
    /\ drv_pc = "organize"
    /\ listing # <<>>
    /\ Skipped(Head(listing)[1])
    /\ listing' = Tail(listing)
    /\ UNCHANGED drv_pc
    /\ RunKeeps({"listing"})

\* one turn of the loop over the listing: a file copied into its folder
CopyFile ==
    /\ drv_pc = "organize"
    /\ listing # <<>>
    /\ ~Skipped(Head(listing)[1])
    /\ LET formatted_name == formatted_name_of(Head(listing)[1]).s
           new_filename == formatted_name \o <<".","p","d","f">>
       IN  /\ organized_dir' = CopyInto(organized_dir, formatted_name,
                                        new_filename, Head(listing)[2])
           /\ organized_files' = Append(organized_files,
                                    OrganizedPath(formatted_name, new_filename))
    /\ listing' = Tail(listing)
    /\ UNCHANGED drv_pc
    /\ RunKeeps({"listing", "organized_dir", "organized_files"})

\* the folder cannot be made or the copy raises
CopyFileFails ==
    /\ drv_pc = "organize"
    /\ listing # <<>>
    /\ ~Skipped(Head(listing)[1])
    /\ ProcessingError([page |-> Head(listing)[2], kind |-> "copy"])
    /\ RunKeeps({"reported", "faulted", "result"})

\* return organized_files, total_pages
ReturnOrganized ==
    /\ drv_pc = "organize"
    /\ listing = <<>>
    /\ result' = Returned(organized_files, Len(pages))
    /\ drv_pc' = "returned"
    /\ RunKeeps({"result"})

\* main: file_paths is not empty, the archive is created
CreateZip ==
    /\ drv_pc = "returned"
    /\ result.files # <<>>
    /\ zip' = create_download_zip(result.files, pages_dir, organized_dir)
    /\ drv_pc' = "done"
    /\ RunKeeps({"zip"})

\* main: file_paths is empty
NothingToZip ==
    /\ drv_pc = "returned"
    /\ result.files = <<>>
    /\ reported' = reported \cup
           {[message |-> "Failed to process the PDF.", page |-> 0]}
    /\ drv_pc' = "done"
    /\ RunKeeps({"reported"})

----------------------------------------------------------------------------
(* Bounded inputs and the three specifications.                            *)

FormatIdle == fmt_pc = "idle" /\ fmt_in = None /\ fmt_out = <<>>
ExtractIdle == ext_pc = "idle" /\ ext_text = <<>> /\ ext_name = None
SplitIdle ==
    /\ drv_pc = "idle"
    /\ pages = <<>>
    /\ organize_into_folders = FALSE
    /\ done_pages = 0
    /\ pages_dir = {}
    /\ organized_dir = {}
    /\ output_path = <<>>
    /\ output_files = <<>>
    /\ listing = <<>>
    /\ organized_files = <<>>
    /\ reported = {}
    /\ faulted = {}
    /\ result = NotReturned
    /\ zip = <<>>

\* the sequences of at most n elements of S
RECURSIVE SeqsUpTo(_, _)
SeqsUpTo(S, n) ==
    IF n = 0 THEN {<<>>}
    ELSE LET shorter == SeqsUpTo(S, n - 1) IN
         shorter \cup { Append(l, x) : l \in { y \in shorter : Len(y) = n - 1 },
                                       x \in S }

\* format_name_for_filename on None and on the names of at most MaxTokens
\* words
MaxTokens == 4

NameWords ==
    { <<"J","u","a","n">>, <<"S","t","a",".">>, <<"S","T","O">>, <<"S",".","t","a">>, <<"d","e">>, <<"v","a","n">>, <<"C","r","u","z">>,
      <<"C","O","M","P","L","E","T","I","O","N">>, <<"T","h","i","s",":">> }

FormatInputs ==
    {None} \cup { Some(Join(l, <<" ">>)) : l \in SeqsUpTo(NameWords, MaxTokens) }

FormatInit ==
    /\ fmt_pc = "call"
    /\ fmt_in \in FormatInputs
    /\ fmt_out = <<>>
    /\ ExtractIdle
    /\ SplitIdle

FormatCall ==
    /\ fmt_pc = "call"
    /\ fmt_out' = format_name_for_filename(fmt_in)
    /\ fmt_pc' = "returned"
    /\ UNCHANGED <<fmt_in, ext_vars, drv_vars>>

FormatNext == FormatCall

FormatSpec == FormatInit /\ [][FormatNext]_vars

\* extract_name_from_text on the texts of at most MaxLines lines, alone or
\* under a line that already speaks of the certificate
MaxLines == 3

TextLines ==
    { <<"C","E","R","T","I","F","I","C","A","T","E"," ","O","F"," ","C","O","M","P","L","E","T","I","O","N">>,
      <<"T","h","i","s"," ","c","e","r","t","i","f","i","c","a","t","e">>,
      <<"E","d"," ","S","t","a","."," ","A","n","a">>,
      <<"A","l"," ","O","'","S","y">>,
      <<"C","h","i","e","f"," ","O","f","f","i","c","e","r">>,
      <<"p","r","e","s","e","n","t","e","d"," ","t","o"," ","a","l","NUL"," ","s","y"," ","f","o","r"," ","s","u","c","c","e","s","s","f","u","l","l","y">>,
      <<"C","O","M","P","L","E","C","E","R","T","I","F","I","C","A","T","E","T","I","O","N">> }

TextHeads == { <<>>, <<"T","h","i","s"," ","c","e","r","t","i","f","i","c","a","t","e","\n">> }

ExtractInit ==
    /\ ext_pc = "call"
    /\ ext_text \in { h \o Join(l, <<"\n">>) :
                         h \in TextHeads, l \in SeqsUpTo(TextLines, MaxLines) }
    /\ ext_name = None
    /\ FormatIdle
    /\ SplitIdle

ExtractNext ==
    \/ ExtractStart
    \/ Method1
    \/ Method2
    \/ Method3
    \/ Method4
    \/ CleanupAndReturn

ExtractSpec == ExtractInit /\ [][ExtractNext]_vars

\* split_pdf_with_names on the documents of at most MaxPages pages
MaxPages == 3

PageTexts ==
    { <<"C","E","R","T","I","F","I","C","A","T","E"," ","O","F"," ","C","O","M","P","L","E","T","I","O","N","\n","A","l"," ","S","y","\n","T","h","i","s"," ","c","e","r","t","i","f","i","c","a","t","e">>,
      <<"C","E","R","T","I","F","I","C","A","T","E"," ","O","F"," ","C","O","M","P","L","E","T","I","O","N","\n","T","h","i","s","b","e"," ","S","y","\n","T","h","i","s"," ","c","e","r","t","i","f","i","c","a","t","e">>,
      <<"C","E","R","T","I","F","I","C","A","T","E"," ","O","F"," ","C","O","M","P","L","E","T","I","O","N","\n",":","\n","T","h","i","s"," ","c","e","r","t","i","f","i","c","a","t","e">>,
      <<"n","o"," ","n","a","m","e"," ","h","e","r","e">> }

SplitInit ==
    /\ drv_pc = "open"
    /\ pages \in SeqsUpTo(PageTexts, MaxPages)
    /\ organize_into_folders \in BOOLEAN
    /\ done_pages = 0
    /\ pages_dir = {}
    /\ organized_dir = {}
    /\ output_path = <<>>
    /\ output_files = <<>>
    /\ listing = <<>>
    /\ organized_files = <<>>
    /\ reported = {}
    /\ faulted = {}
    /\ result = NotReturned
    /\ zip = <<>>
    /\ FormatIdle
    /\ ExtractIdle

SplitNext ==
    \/ OpenPdf
    \/ OpenPdfFails
    \/ ExtractText
    \/ ExtractTextFails
    \/ ExtractStart
    \/ Method1
    \/ Method2
    \/ Method3
    \/ Method4
    \/ CleanupAndReturn
    \/ FormatFoundName
    \/ FormatCall
    \/ NameFromFormatted
    \/ NameUnknown
    \/ WritePage
    \/ WritePageFails
    \/ ReturnPages
    \/ ListPages
    \/ SkipFile
    \/ CopyFile
    \/ CopyFileFails
    \/ ReturnOrganized
    \/ CreateZip
    \/ NothingToZip

SplitSpec == SplitInit /\ [][SplitNext]_vars

----------------------------------------------------------------------------
(* Properties of the formatter.                                            *)

\* the token sequence the formatter works on for the current argument
CleanTokens == IF fmt_in.none THEN <<>> ELSE Split(clean_name(fmt_in.s))

\* "<surname>, <given>" with the surname the tokens from position k
\* (1-based) on
SurnameFrom(toks, k) ==
    Join(From(toks, k), <<" ">>) \o <<",", " ">> \o toks[1]

\* a token is sta/sto, letter case and one trailing period ignored
StaStoTrailing(tok) ==
    LET l == Lower(tok)
        bare == IF l # <<>> /\ l[Len(l)] = "." THEN SubSeq(l, 1, Len(l) - 1)
                ELSE l
    IN  bare \in { <<"s","t","a">>, <<"s","t","o">> }

\* a token is sta/sto, letter case and every period ignored
StaStoAnyPeriod(tok) ==
    SubChars(Lower(tok), {"."}) \in { <<"s","t","a">>, <<"s","t","o">> }

InPrefixSet(tok) == Lower(tok) \in name_prefixes

\* C3: with at least 4 cleaned tokens, the second not sta/sto and the
\* third-to-last and second-to-last both in the Name Prefix Set, the result
\* is "<last three tokens>, <first token>".
C3_DoublePrefixKeepsThree ==
    LET t == CleanTokens
        n == Len(t)
    IN  (/\ fmt_pc = "returned"
         /\ n >= 4
         /\ ~StaStoTrailing(t[2])
         /\ InPrefixSet(t[n - 2])
         /\ InPrefixSet(t[n - 1]))
        => fmt_out = SurnameFrom(t, n - 2)

\* C4: the result is "unknown" for None, for "" and for every argument the
\* cleanup pass empties, and the result is never the empty string.
C4_UnknownWhenNothingLeft ==
    fmt_pc = "returned" =>
        /\ (fmt_in.none \/ clean_name(fmt_in.s) = <<>>) => fmt_out = <<"u","n","k","n","o","w","n">>
        /\ fmt_out # <<>>

\* the position (1-based) where the surname starts under the cascade
\* (a) (b) (c) (d) (e) taken in that order; staB is the sta/sto test of (b)
CascadeStart(t, staB(_)) ==
    LET n == Len(t) IN
    CASE n >= 3 /\ StaStoTrailing(t[2]) -> 2
      [] OTHER ->
         CASE n >= 3 /\ staB(t[n - 1]) -> n - 1
           [] OTHER ->
              CASE n >= 3 /\ InPrefixSet(t[n - 1]) -> n - 1
                [] OTHER ->
                   CASE n >= 4 /\ InPrefixSet(t[n - 2]) /\ InPrefixSet(t[n - 1])
                          -> n - 2
                     [] OTHER -> n

C10_SurnameIsProperSuffix ==
    (fmt_pc = "returned" /\ Len(CleanTokens) >= 2)
        => \E k \in 2..Len(CleanTokens) : fmt_out = SurnameFrom(CleanTokens, k)

\* a result that drops the tokens between the first and the surname
C10_Witness ==
    /\ fmt_pc = "returned"
    /\ CleanTokens = << <<"J","u","a","n">>, <<"C","r","u","z">>, <<"d","e">>, <<"C","r","u","z">> >>
    /\ fmt_out = <<"d","e"," ","C","r","u","z",","," ","J","u","a","n">>

----------------------------------------------------------------------------
(* Properties of the extractor.                                            *)

\* what the four strategies yield on a text, in their order
Yields(text) == <<method1(text), method2(text), method3(text), method4(text)>>

\* the candidate of the lowest-numbered strategy yielding a non-empty one
\* among ys, None when no strategy does
FirstCandidate(ys) ==
    LET yielding == { k \in 1..Len(ys) : Truthy(ys[k]) } IN
    IF yielding = {} THEN None
    ELSE ys[CHOOSE k \in yielding : \A j \in yielding : k <= j]

\* C5: the name returned is the post-processed candidate of the
\* lowest-numbered strategy yielding a non-empty candidate, and NotFound
\* (None or "") is returned only if all four strategies yielded nothing.
C5_LowestStrategyOrNotFound ==
    ext_pc = "returned" =>
        LET first == FirstCandidate(Yields(ext_text)) IN
        /\ Truthy(first) => ext_name = Some(cleanup(first.s))
        /\ ~Truthy(ext_name) => ~Truthy(first)

\* C5 amended: the name returned is the post-processed candidate of the
\* lowest-numbered strategy yielding a non-empty candidate, which is ""
\* when post-processing leaves nothing of it; None is returned only if all
\* four strategies yielded nothing, and then the result is None or "".
C5_LowestStrategyPostProcessed ==
    ext_pc = "returned" =>
        LET first == FirstCandidate(Yields(ext_text)) IN
        /\ Truthy(first) => ext_name = Some(cleanup(first.s))
        /\ ~Truthy(first) => ~Truthy(ext_name)
        /\ ext_name = None => ~Truthy(first)

\* strategy 4 is the one used although strategy 3 matches names in the
\* text: every match is next to "Officer"
C5_Witness ==
    /\ ext_pc = "returned"
    /\ ~Truthy(method1(ext_text))
    /\ ~Truthy(method2(ext_text))
    /\ ~Truthy(method3(ext_text))
    /\ Truthy(method4(ext_text))
    /\ FindIter(RegularPattern, ext_text) # <<>>
    /\ ext_name = Some(<<"a","l"," ","s","y">>)

\* the pairs <<c, t>> of line numbers of a text: line c contains
\* "CERTIFICATE OF COMPLETION" and t is the first later line containing
\* "This certificate"
Windows(lines) ==
    { w \in (1..Len(lines)) \X (1..Len(lines)) :
        /\ Contains(lines[w[1]], <<"C","E","R","T","I","F","I","C","A","T","E"," ","O","F"," ","C","O","M","P","L","E","T","I","O","N">>)
        /\ w[1] < w[2]
        /\ Contains(lines[w[2]], <<"T","h","i","s"," ","c","e","r","t","i","f","i","c","a","t","e">>)
        /\ \A j \in (w[1] + 1)..(w[2] - 1) :
              ~Contains(lines[j], <<"T","h","i","s"," ","c","e","r","t","i","f","i","c","a","t","e">>) }

\* the first stripped line strictly inside a window that passes the test,
\* None when no line of the window does
FirstInWindow(lines, w) ==
    LET ok == { j \in (w[1] + 1)..(w[2] - 1) : LineAccepted(Strip(lines[j])) }
    IN  IF ok = {} THEN None
        ELSE Some(Strip(lines[CHOOSE j \in ok : \A l \in ok : j <= l]))

\* C8: when strategy 2 runs on a text with a window (a line c containing
\* "CERTIFICATE OF COMPLETION", and the first later line t containing "This
\* certificate"), it yields the first accepted line of such a window, also
\* when a line before c contains "This certificate".
C8_WindowAfterEarlierMarker ==
    LET lines == SplitLines(ext_text) IN
    (/\ ext_pc = "method3"
     /\ ~Truthy(method1(ext_text))
     /\ Windows(lines) # {})
        => \E w \in Windows(lines) :
              LET first == FirstInWindow(lines, w) IN
              IF Truthy(first) THEN ext_name = first ELSE ~Truthy(ext_name)

\* C9: a non-empty name returned contains neither "COMPLETION" nor
\* "CERTIFICATE" in any letter case, no standalone word "This", no
\* whitespace at either end and no two whitespace characters in a row.
C9_ReturnedNameIsClean ==
    (ext_pc = "returned" /\ Truthy(ext_name)) =>
        LET s == ext_name.s IN
        /\ ~Contains(Lower(s), <<"c","o","m","p","l","e","t","i","o","n">>)
        /\ ~Contains(Lower(s), <<"c","e","r","t","i","f","i","c","a","t","e">>)
        /\ \A i \in 1..Len(s) : ~ThisWordAt(s, i)
        /\ ~IsSpace(s[1])
        /\ ~IsSpace(s[Len(s)])
        /\ \A i \in 1..(Len(s) - 1) : ~(IsSpace(s[i]) /\ IsSpace(s[i + 1]))

----------------------------------------------------------------------------
(* Properties of split_pdf_with_names.                                     *)

\* the pages a fault occurred on while they were read or written
FaultedPages == { f.page : f \in { g \in faulted : g.kind \in {"text", "write"} } }

\* the pages held by the files returned to the caller
ReturnedPages ==
    { PageAt(result.files[k], pages_dir, organized_dir) :
          k \in 1..Len(result.files) }

\* C1: when a fault occurs while a page is read or written (grouping off),
\* the fault is reported and the output file of every page without a fault
\* is returned to the caller: the batch is not aborted and the results of
\* the other pages are not discarded.  (That the page with the fault is
\* itself skipped is left out of the formula, which looks at the runs with
\* a single fault.)
C1_FaultKeepsOtherPages ==
    (/\ result.returned
     /\ ~organize_into_folders
     /\ Cardinality(faulted) = 1
     /\ FaultedPages # {}) =>
        /\ reported # {}
        /\ \A j \in 1..Len(pages) : j \notin FaultedPages => j \in ReturnedPages

\* the Formatted Name of a page output, read from its file name
NameOfOutput(f) == formatted_name_of(f[1])

\* C2: with grouping on and no fault, for every Formatted Name F other than
\* "unknown" the folder named F holds as many files as there are page
\* outputs named F, and no output named "unknown" is in a folder.  (F
\* ranges over the non-empty names.)
C2_FolderHoldsEveryPageOfName ==
    (result.returned /\ organize_into_folders /\ faulted = {}) =>
        /\ \A f \in pages_dir :
              LET F == NameOfOutput(f) IN
              (Truthy(F) /\ F.s # <<"u","n","k","n","o","w","n">>) =>
                  Cardinality({ g \in organized_dir : g[1] = F.s })
                      = Cardinality({ g \in pages_dir : NameOfOutput(g) = F })
        /\ \A f \in pages_dir :
              NameOfOutput(f) = Some(<<"u","n","k","n","o","w","n">>)
                  => \A g \in organized_dir : g[3] # f[2]

\* C6: with no fault and grouping off, the files returned are one per
\* page, in page order, the k-th named "<k on 3 digits> <Formatted Name>.pdf"
\* with the Formatted Name of the name extracted from the page's text, or
\* "<k on 3 digits> unknown.pdf" when extraction found no name.
C6_FileNamesInPageOrder ==
    (result.returned /\ ~organize_into_folders /\ faulted = {}) =>
        /\ Len(result.files) = Len(pages)
        /\ \A k \in 1..Len(result.files) :
              LET found == extract_name_from_text(pages[k])
                  stem == IF Truthy(found) THEN format_name_for_filename(found)
                          ELSE <<"u","n","k","n","o","w","n">>
              IN  /\ result.files[k].under = "pages"
                  /\ basename(result.files[k])
                        = ZFill(Decimal(k)) \o <<" ">> \o stem \o <<".","p","d","f">>
                  /\ PageAt(result.files[k], pages_dir, organized_dir) = k

====
